---- MODULE Spec2Model ----
(***************************************************************************)
(* Model of the bulk data ingestion pipeline of the ETL service:           *)
(*   app/core/retry_utils.py    retry engine                               *)
(*   app/core/smart_auth.py     access-token cache of the SMART signer     *)
(*   app/services/*.py          record transformer and database loader     *)
(*   app/api/bulk_data.py       job registry, export driver, downloader,   *)
(*                              search fallback                            *)
(*   app/api/transform.py       /process and /load-to-database             *)
(* Absent Python values (None, a missing dict key) are the value Null.     *)
(* Texts that the code inspects are sequences of one-character strings.    *)
(***************************************************************************)
EXTENDS Integers, Sequences, FiniteSets, TLC

VARIABLES
    rt,        \* one run of retry_with_backoff.wrapper
    signer,    \* SMARTBackendAuth instance: access_token, token_expiry
    callers,   \* get_access_token calls in progress on that instance
    clock,     \* wall clock (seconds) seen by the signer
    jobs,      \* bulk_data.jobs: job id -> Job entity
    tasks,     \* background tasks, in the order they were scheduled
    disk,      \* BULK_DATA_DIR: job id -> files of the job directory
    tables,    \* database: resource type -> rows
    now,       \* wall clock seen by the registry and the loader
    reply,     \* what the last operation of the HTTP surface returned
    last_load  \* the most recent call of load_file: its type and records

vars == <<rt, signer, callers, clock, jobs, tasks, disk, tables, now, reply,
          last_load>>

\* Null is an absent text, NoInt an absent number.
Null == "<none>"

NoInt == 0 - 1

Last(s) == s[Len(s)]

Min(a, b) == IF a < b THEN a ELSE b

RECURSIVE Pow(_, _)
Pow(b, e) == IF e = 0 THEN 1 ELSE b * Pow(b, e - 1)

(***************************************************************************)
(* Retry engine                                                            *)
(***************************************************************************)

RETRY_MAX_ATTEMPTS == 5

RETRY_BASE_DELAY == 1

RETRY_MAX_DELAY == 60

exponential_base == 2

DOWNLOAD_EXTRA_ATTEMPTS == 2

RETRY_CONFIG_NETWORK == [max_attempts |-> RETRY_MAX_ATTEMPTS]

RETRY_CONFIG_DOWNLOAD == [max_attempts |-> RETRY_MAX_ATTEMPTS + DOWNLOAD_EXTRA_ATTEMPTS]

retryable_status_codes == {408, 429, 500, 502, 503, 504}

retryable_exceptions ==
    {"TimeoutException", "NetworkError", "RemoteProtocolError", "ConnectError",
     "asyncio.TimeoutError"}

\* Statuses and exceptions the wrapped call is made to produce.
StatusCodes == retryable_status_codes \cup {200, 202, 404}

Exceptions == retryable_exceptions \cup {"InvalidURL"}

CallOutcomes ==
    [kind : {"response"}, status_code : StatusCodes, error : {Null}]
        \cup [kind : {"exception"}, status_code : {NoInt}, error : Exceptions]

calculate_delay(attempt) ==
    Min(RETRY_BASE_DELAY * Pow(exponential_base, attempt), RETRY_MAX_DELAY)

should_retry(config, attempt, error, status_code) ==
    IF attempt >= config.max_attempts THEN FALSE
    ELSE IF status_code # NoInt THEN status_code \in retryable_status_codes
    ELSE IF error # Null THEN error \in retryable_exceptions
    ELSE FALSE

LoopGuardOffByOne(config, attempt) == attempt <= config.max_attempts

\* while attempt < config.max_attempts
LoopGuard(config, attempt) == attempt < config.max_attempts

\* What the wrapper does when its loop ends: raise last_error; with no
\* exception seen, last_error is None and the raise itself is a TypeError.
Exhausted(last_error) ==
    [kind |-> "raised", status_code |-> NoInt,
     error |-> IF last_error = Null THEN "TypeError" ELSE last_error]

\* The logical calls of the pipeline and the configuration each is wrapped with.
LogicalCalls == {"kick_off", "poll", "search", "download"}

ConfigOf(call) ==
    IF call = "download" THEN RETRY_CONFIG_DOWNLOAD ELSE RETRY_CONFIG_NETWORK

RetryIdle ==
    [call |-> "kick_off", config |-> RETRY_CONFIG_NETWORK, attempt |-> 0, last_error |-> Null,
     calls |-> 0, delay |-> 0, slept |-> 0,
     result |-> [kind |-> "running", status_code |-> NoInt, error |-> Null]]

\* The parts of the state that a specification leaves alone.
othersRetry == <<signer, callers, clock, jobs, tasks, disk, tables, now, reply, last_load>>

othersToken == <<rt, jobs, tasks, disk, tables, now, reply, last_load>>

IdleRegistry ==
    /\ jobs = << >>
    /\ tasks = << >>
    /\ disk = << >>
    /\ tables = << >>
    /\ now = 0
    /\ reply = Null
    /\ last_load = Null

IdleExceptRetry ==
    /\ signer = Null
    /\ callers = << >>
    /\ clock = 0
    /\ IdleRegistry

IdleExceptToken ==
    /\ rt = Null
    /\ IdleRegistry

InitRetry ==
    /\ IdleExceptRetry
    /\ \E call \in LogicalCalls :
           rt = [RetryIdle EXCEPT !.call = call, !.config = ConfigOf(call)]

\* The state after one more retry: sleep, attempt += 1, and the loop test.
Retried(r, last_error) ==
    LET delay == calculate_delay(r.attempt)
        next == [r EXCEPT !.attempt = r.attempt + 1, !.last_error = last_error,
                          !.calls = r.calls + 1, !.delay = delay,
                          !.slept = r.slept + delay]
    IN  IF LoopGuard(r.config, next.attempt) THEN next
        ELSE [next EXCEPT !.result = Exhausted(last_error)]

\* One iteration of the loop of wrapper: the call and what follows it.
Attempt(o) ==
    /\ rt.result.kind = "running"
    /\ LoopGuard(rt.config, rt.attempt)
    /\ rt' =
        IF o.kind = "response"
        THEN IF should_retry(rt.config, rt.attempt, Null, o.status_code)
             THEN Retried(rt, rt.last_error)
             ELSE [rt EXCEPT !.calls = rt.calls + 1,
                             !.result = [kind |-> "returned",
                                         status_code |-> o.status_code,
                                         error |-> Null]]
        ELSE IF should_retry(rt.config, rt.attempt, o.error, NoInt)
             THEN Retried(rt, o.error)
             ELSE [rt EXCEPT !.calls = rt.calls + 1, !.last_error = o.error,
                             !.result = [kind |-> "raised", status_code |-> NoInt,
                                         error |-> o.error]]
    /\ UNCHANGED othersRetry

NextRetry == \E o \in CallOutcomes : Attempt(o)

SpecRetry == InitRetry /\ [][NextRetry]_vars

\* C5: for every sequence of outcomes of the wrapped call, one logical call
\* invokes it at most max_attempts times: at most RETRY_MAX_ATTEMPTS for a
\* kick-off, poll or search request, at most RETRY_MAX_ATTEMPTS + 2 for a
\* file download.
C5_AttemptsBounded ==
    /\ rt.calls <= rt.config.max_attempts
    /\ rt.call \in {"kick_off", "poll", "search"} => rt.calls <= RETRY_MAX_ATTEMPTS
    /\ rt.call = "download" => rt.calls <= RETRY_MAX_ATTEMPTS + 2

\* A download whose every attempt failed retryably: the budget is used up.
C5_Witness ==
    /\ rt.call = "download"
    /\ rt.calls = RETRY_MAX_ATTEMPTS + 2
    /\ rt.result.kind = "raised"

\* C23: when the last of max_attempts attempts fails retryably like all
\* before it, the wrapper stops and raises the error of that last attempt:
\* its exception, or its HTTP status.
C23_RaisesLastErrorObserved ==
    [][\A o \in CallOutcomes :
          (/\ rt.attempt + 1 = rt.config.max_attempts
           /\ should_retry(rt.config, rt.attempt, o.error, o.status_code)
           /\ Attempt(o)) =>
              /\ rt'.result.kind = "raised"
              /\ rt'.calls = rt.config.max_attempts
              /\ rt'.result.error = o.error
              /\ rt'.result.status_code = o.status_code]_vars

(***************************************************************************)
(* Access-token cache of SMARTBackendAuth                                  *)
(***************************************************************************)

EXPIRY_MARGIN == 60

DEFAULT_EXPIRES_IN == 300

MaxClock == 180

TickStep == 30

Callers == {"c1", "c2"}

\* expires_in of a token response; NoInt when the field is absent.
ExpiresIn == {NoInt, 30, 60, 120}

\* 0 stands for a request that failed with httpx.RequestError.
TokenResponses ==
    [status_code : {200}, expires_in : ExpiresIn]
        \cup [status_code : {401, 0}, expires_in : {NoInt}]

\* A token is named by its time of issue and the expires_in sent with it.
NoToken == [iat |-> NoInt, expires_in |-> NoInt]

SignerIdle == [access_token |-> NoToken, token_expiry |-> NoInt]

CallerIdle == [pc |-> "idle", token |-> NoToken, at |-> NoInt, from |-> Null,
               expires_at |-> NoInt]

CachedTokenValidNoMargin(s, t) ==
    /\ s.access_token # NoToken
    /\ s.token_expiry # NoInt
    /\ t < s.token_expiry

\* if self.access_token and self.token_expiry:
\*     if datetime.now() < self.token_expiry - timedelta(seconds=60):
CachedTokenValid(s, t) ==
    /\ s.access_token # NoToken
    /\ s.token_expiry # NoInt
    /\ t < s.token_expiry - EXPIRY_MARGIN

\* get_access_token up to its first suspension: the cached token is
\* returned, or the token request is sent.
GetAccessToken(c) ==
    /\ callers[c].pc # "posting"
    /\ callers' =
        [callers EXCEPT ![c] =
            IF CachedTokenValid(signer, clock)
            THEN [pc |-> "returned", token |-> signer.access_token, at |-> clock,
                  from |-> "cache", expires_at |-> signer.token_expiry]
            ELSE [CallerIdle EXCEPT !.pc = "posting"]]
    /\ UNCHANGED <<signer, clock>>
    /\ UNCHANGED othersToken

\* get_access_token from the response of the token endpoint on.
TokenResponse(c, resp) ==
    /\ callers[c].pc = "posting"
    /\ IF resp.status_code = 200
       THEN LET expires_in == IF resp.expires_in = NoInt THEN DEFAULT_EXPIRES_IN
                              ELSE resp.expires_in
                token == [iat |-> clock, expires_in |-> resp.expires_in]
            IN  /\ signer' = [access_token |-> token,
                              token_expiry |-> clock + expires_in]
                /\ callers' = [callers EXCEPT ![c] =
                      [pc |-> "returned", token |-> token, at |-> clock,
                       from |-> "token_url", expires_at |-> clock + expires_in]]
       ELSE /\ callers' = [callers EXCEPT ![c] = [CallerIdle EXCEPT !.pc = "raised"]]
            /\ UNCHANGED signer
    /\ UNCHANGED clock
    /\ UNCHANGED othersToken

Tick ==
    /\ clock + TickStep <= MaxClock
    /\ clock' = clock + TickStep
    /\ UNCHANGED <<signer, callers>>
    /\ UNCHANGED othersToken

InitToken ==
    /\ IdleExceptToken
    /\ signer = SignerIdle
    /\ callers = [c \in Callers |-> CallerIdle]
    /\ clock = 0

NextToken ==
    \/ \E c \in Callers : GetAccessToken(c)
    \/ \E c \in Callers : \E resp \in TokenResponses : TokenResponse(c, resp)
    \/ Tick

SpecToken == InitToken /\ [][NextToken]_vars

\* C6 as stated: get_access_token never returns a token within 60 s of that
\* token's expires_at, from the cache or fresh from the token endpoint.
C6_NeverWithinMargin ==
    \A c \in Callers :
        callers[c].pc = "returned" =>
            callers[c].at < callers[c].expires_at - EXPIRY_MARGIN

\* C6 amended: a token returned from the cache is returned more than 60 s
\* before its expires_at; a token just obtained is returned expires_in
\* seconds (300 when the response has none) before its expires_at, whatever
\* expires_in is.
C6_CachedOutsideMargin ==
    \A c \in Callers :
        callers[c].pc = "returned" =>
            /\ callers[c].from = "cache" =>
                    callers[c].at < callers[c].expires_at - EXPIRY_MARGIN
            /\ callers[c].from = "token_url" =>
                    callers[c].expires_at - callers[c].at =
                        IF callers[c].token.expires_in = NoInt
                        THEN DEFAULT_EXPIRES_IN ELSE callers[c].token.expires_in

\* A cached token handed out some time after it was obtained.
C6_Witness ==
    \E c \in Callers :
        /\ callers[c].pc = "returned"
        /\ callers[c].from = "cache"
        /\ callers[c].at > callers[c].token.iat

\* C20: for one signer, under any interleaving of get_access_token calls, at
\* most one token request is in flight, and the cached access_token and
\* expires_at always come from one and the same token response.
C20_RefreshUnderExclusion ==
    /\ Cardinality({c \in Callers : callers[c].pc = "posting"}) <= 1
    /\ IF signer.access_token = NoToken
       THEN signer.token_expiry = NoInt
       ELSE signer.token_expiry =
                signer.access_token.iat +
                    (IF signer.access_token.expires_in = NoInt THEN DEFAULT_EXPIRES_IN
                     ELSE signer.access_token.expires_in)

(***************************************************************************)
(* Consecutive kick-offs with SMART authentication and the same credentials *)
(***************************************************************************)

\* The SMART branch of kick_off_bulk_export for kick-off c, up to the first
\* suspension of get_auth_header: smart_auth = SMARTBackendAuth(...) is a new
\* signer, whose cache is tested. A kick-off begins when the one before it
\* has ended.
SmartKickOff(c) ==
    /\ callers[c].pc = "idle"
    /\ \A d \in Callers : callers[d].pc # "posting"
    /\ c = "c2" => callers["c1"].pc # "idle"
    /\ signer' = SignerIdle
    /\ callers' =
        [callers EXCEPT ![c] =
            IF CachedTokenValid(SignerIdle, clock)
            THEN [pc |-> "returned", token |-> SignerIdle.access_token, at |-> clock,
                  from |-> "cache", expires_at |-> SignerIdle.token_expiry]
            ELSE [CallerIdle EXCEPT !.pc = "posting"]]
    /\ UNCHANGED clock
    /\ UNCHANGED othersToken

NextAuth ==
    \/ \E c \in Callers : SmartKickOff(c)
    \/ \E c \in Callers : \E resp \in TokenResponses : TokenResponse(c, resp)
    \/ Tick

SpecAuth == InitToken /\ [][NextAuth]_vars

\* C19: of two consecutive SMART kick-offs with the same credentials, the
\* first obtains a token from the token endpoint; the second sends no token
\* request and uses the token of the first when it begins more than 60 s
\* before that token's expires_at, and sends one token request otherwise.
C19_SecondKickOffReusesToken ==
    [][/\ SmartKickOff("c1") => callers'["c1"].pc = "posting"
       /\ (SmartKickOff("c2") /\ callers["c1"].pc = "returned") =>
             IF clock < callers["c1"].expires_at - EXPIRY_MARGIN
             THEN /\ callers'["c2"].pc = "returned"
                  /\ callers'["c2"].from = "cache"
                  /\ callers'["c2"].token = callers["c1"].token
             ELSE callers'["c2"].pc = "posting"]_vars

(***************************************************************************)
(* Record transformer and database loader                                  *)
(***************************************************************************)

ResourceTypes == {"Patient", "Condition", "Encounter", "Observation"}

\* A line of an .ndjson file. parses: json.loads gives a JSON object. The
\* fields of the object: id; subject, the segments of subject.reference
\* split at "/" (<< >>: no subject); text and extra, two type-specific
\* fields (Patient gender, maritalStatus.text; Condition code.text,
\* severity.text; Encounter status, class.code; Observation value, status).
Line(id, subject, text, extra) ==
    [parses |-> TRUE, id |-> id, subject |-> subject, text |-> text, extra |-> extra]

BadLine == [parses |-> FALSE, id |-> Null, subject |-> << >>, text |-> Null, extra |-> Null]

ResA == Line("a", <<"Patient", "a">>, "x", "m")

ResA2 == Line("a", <<"Patient", "a">>, "y", "n")

ResB == Line("b", << >>, "x", "m")

ResEmptyId == Line("", << >>, "x", "m")

ResNoId == Line(Null, << >>, "x", "m")

ResDangling == Line("c", <<"Patient", "zz">>, "x", "m")

\* A file: whether it exists, and its lines (or records).
File(content) == [exists |-> TRUE, content |-> content]

NoFile == [exists |-> FALSE, content |-> << >>]

_extract_reference_id(reference) ==
    IF reference = << >> THEN Null
    ELSE IF Len(reference) > 1 THEN Last(reference)
    ELSE reference[1]

\* transform_patient, transform_condition, transform_encounter,
\* transform_observation: fhir_id, the reference to the patient, the two
\* type-specific fields, and the resource itself as raw_data.
transformer(resource_type, resource) ==
    [fhir_id |-> resource.id,
     patient_id |-> IF resource_type = "Patient" THEN Null
                    ELSE _extract_reference_id(resource.subject),
     text |-> resource.text,
     extra |-> resource.extra,
     raw_data |-> resource]

RECURSIVE transform_lines(_, _, _)
transform_lines(resource_type, lines, acc) ==
    IF lines = << >> THEN acc
    ELSE LET line == Head(lines)
         IN  transform_lines(resource_type, Tail(lines),
                IF line.parses
                THEN [acc EXCEPT !.processed = acc.processed + 1,
                                 !.records = Append(acc.records,
                                                    transformer(resource_type, line))]
                ELSE [acc EXCEPT !.failed = acc.failed + 1])

\* transform_file: raised for an unsupported type; else the counts and the
\* records written to transformed/<type>.json.
transform_file(lines, resource_type) ==
    IF resource_type \notin ResourceTypes
    THEN [raised |-> TRUE, processed |-> 0, failed |-> 0, records |-> << >>]
    ELSE transform_lines(resource_type, lines,
            [raised |-> FALSE, processed |-> 0, failed |-> 0, records |-> << >>])

\* The columns that ON CONFLICT (fhir_id) DO UPDATE sets from the incoming
\* record, besides job_id and updated_at.
ConflictColumns(resource_type) ==
    CASE resource_type = "Patient" -> {"text", "extra", "raw_data"}
      [] resource_type = "Condition" -> {"patient_id", "text"}
      [] resource_type = "Encounter" -> {"text"}
      [] resource_type = "Observation" -> {"text"}
      [] OTHER -> {}

RowIndex(rows, fhir_id) == {i \in 1..Len(rows) : rows[i].fhir_id = fhir_id}

InsertAlways(rows, fhir_id) == {}

\* ON CONFLICT (fhir_id): the rows that the unique index finds.
Conflict(rows, fhir_id) == RowIndex(rows, fhir_id)

\* The constraints of the tables (backend models): fhir_id NOT NULL; for the
\* three dependent types patient_id REFERENCES patients(fhir_id).
StatementFails(tbls, resource_type, record, writes_patient_id) ==
    \/ record.fhir_id = Null
    \/ /\ resource_type # "Patient"
       /\ writes_patient_id
       /\ record.patient_id # Null
       /\ RowIndex(tbls["Patient"], record.patient_id) = {}

\* _load_patient ... _load_observation: the INSERT ... ON CONFLICT statement
\* run for one record at time t. loaded_for is not a column: it records the
\* job the load was run for.
Upsert(rows, resource_type, record, job_id, loaded_for, t) ==
    LET hit == Conflict(rows, record.fhir_id)
        cols == ConflictColumns(resource_type)
    IN  IF hit = {}
        THEN Append(rows,
                [fhir_id |-> record.fhir_id, patient_id |-> record.patient_id,
                 text |-> record.text, extra |-> record.extra,
                 raw_data |-> record.raw_data, job_id |-> job_id,
                 created_at |-> t, updated_at |-> NoInt, loaded_for |-> loaded_for])
        ELSE [i \in 1..Len(rows) |->
                IF i \in hit
                THEN [rows[i] EXCEPT
                        !.patient_id = IF "patient_id" \in cols THEN record.patient_id ELSE @,
                        !.text = IF "text" \in cols THEN record.text ELSE @,
                        !.extra = IF "extra" \in cols THEN record.extra ELSE @,
                        !.raw_data = IF "raw_data" \in cols THEN record.raw_data ELSE @,
                        !.job_id = job_id,
                        !.updated_at = t,
                        !.loaded_for = loaded_for]
                ELSE rows[i]]

\* The loop of load_file over the records, in one database transaction.
\* After a statement has failed PostgreSQL refuses the later statements of
\* the transaction (each is counted as failed).
RECURSIVE load_records(_, _, _, _, _, _, _)
load_records(tbls, resource_type, records, job_id, loaded_for, t, tx) ==
    IF records = << >> THEN tx
    ELSE LET record == Head(records)
             now_tbls == [tbls EXCEPT ![resource_type] = tx.rows]
             inserts == Conflict(tx.rows, record.fhir_id) = {}
             fails == \/ tx.aborted
                      \/ StatementFails(now_tbls, resource_type, record,
                            inserts \/ "patient_id" \in ConflictColumns(resource_type))
         IN  load_records(tbls, resource_type, Tail(records), job_id, loaded_for, t,
                IF fails
                THEN [tx EXCEPT !.aborted = TRUE, !.failed = tx.failed + 1]
                ELSE [tx EXCEPT !.loaded = tx.loaded + 1,
                                !.rows = Upsert(tx.rows, resource_type, record,
                                                job_id, loaded_for, t)])

CommitsAnyway(rows, tx, commit_ok) ==
    [raised |-> FALSE, loaded |-> tx.loaded, failed |-> tx.failed, rows |-> tx.rows]

\* session.commit() and the return of load_file. COMMIT of a transaction
\* with a failed statement rolls it back without an error.
Committed(rows, tx, commit_ok) ==
    IF ~commit_ok
    THEN [raised |-> TRUE, loaded |-> 0, failed |-> 0, rows |-> rows]
    ELSE [raised |-> FALSE, loaded |-> tx.loaded, failed |-> tx.failed,
          rows |-> IF tx.aborted THEN rows ELSE tx.rows]

\* load_file(json_file, resource_type, job_id) at time t: the rows of the
\* table afterwards, the counts, and whether it raised. commit_ok: whether
\* session.commit() succeeds.
load_file(tbls, records, resource_type, job_id, loaded_for, t, commit_ok) ==
    Committed(tbls[resource_type],
              load_records(tbls, resource_type, records, job_id, loaded_for, t,
                  [rows |-> tbls[resource_type], aborted |-> FALSE,
                   loaded |-> 0, failed |-> 0]),
              commit_ok)

\* The record of a call of load_file. repeat: the call before it loaded the
\* same records into the same table and returned; before: the rows of the
\* table when the call began.
Called(previous, tbls, resource_type, records, raised) ==
    [resource_type |-> resource_type, records |-> records, returned |-> ~raised,
     repeat |-> /\ previous.returned
                /\ previous.resource_type = resource_type
                /\ previous.records = records,
     before |-> tbls[resource_type]]

\* The job directory BULK_DATA_DIR/<job_id>: <type>.ndjson and
\* transformed/<type>.json.
EmptyDir ==
    [ndjson |-> [T \in ResourceTypes |-> NoFile],
     transformed |-> [T \in ResourceTypes |-> NoFile]]

\* An event of a job: what happened, and for which resource type.
Event(e, T) == [e |-> e, T |-> T]

\* F(x), with x evaluated once before F is applied (a local variable that
\* holds the result of a call).
With(x, F(_)) == CHOOSE out \in {F(v) : v \in {x}} : TRUE

\* auto_transform_and_load after load_file has ended for type T (ld), its
\* transform having given tr.
AfterLoad(acc, T, tr, ld) ==
    [acc EXCEPT !.disk[acc.job_id].transformed[T] = File(tr.records),
                !.last_load = Called(acc.last_load, acc.tables, T, tr.records, ld.raised),
                !.total_transformed = acc.total_transformed + tr.processed,
                !.events = acc.events \o <<Event("transform", T), Event("load", T)>>,
                !.now = acc.now + 1,
                !.tables[T] = IF ld.raised THEN @ ELSE ld.rows,
                !.total_loaded = IF ld.raised THEN @ ELSE @ + ld.loaded]

\* auto_transform_and_load after transform_file has ended for type T (tr).
AfterTransform(acc, T, tr, commit_ok) ==
    IF tr.raised THEN acc
    ELSE With(load_file(acc.tables, tr.records, T, acc.job_id, acc.job_id, acc.now,
                        commit_ok),
              LAMBDA ld : AfterLoad(acc, T, tr, ld))

\* One round of the loop of auto_transform_and_load, for type T.
TransformAndLoadType(acc, T, commit_ok) ==
    IF ~acc.disk[acc.job_id].ndjson[T].exists THEN acc
    ELSE With(transform_file(acc.disk[acc.job_id].ndjson[T].content, T),
              LAMBDA tr : AfterTransform(acc, T, tr, commit_ok))

\* The loop of auto_transform_and_load from position i on. failing: the
\* positions whose load transaction fails to commit. events lists, in order,
\* each transform that ended and each load that started.
RECURSIVE transform_and_load_from(_, _, _, _)
transform_and_load_from(resource_types, i, failing, acc) ==
    IF i > Len(resource_types) THEN acc
    ELSE With(TransformAndLoadType(acc, resource_types[i], i \notin failing),
              LAMBDA next : transform_and_load_from(resource_types, i + 1, failing, next))

RECURSIVE LoadsFirst(_)
LoadsFirst(events) ==
    IF Len(events) < 2 THEN events
    ELSE <<events[2], events[1]>> \o LoadsFirst(SubSeq(events, 3, Len(events)))

WithLoadsFirst(r) == [r EXCEPT !.events = LoadsFirst(r.events)]

\* auto_transform_and_load had it loaded each type before transforming it.
auto_load_and_transform(job_id, resource_types, d, tbls, t, ll, failing) ==
    WithLoadsFirst(transform_and_load_from(resource_types, 1, failing,
        [job_id |-> job_id, disk |-> d, tables |-> tbls, now |-> t, last_load |-> ll,
         total_transformed |-> 0, total_loaded |-> 0, events |-> << >>]))

\* auto_transform_and_load(job_id, resource_types) on the given disk and
\* tables at time t.
auto_transform_and_load(job_id, resource_types, d, tbls, t, ll, failing) ==
    transform_and_load_from(resource_types, 1, failing,
        [job_id |-> job_id, disk |-> d, tables |-> tbls, now |-> t, last_load |-> ll,
         total_transformed |-> 0, total_loaded |-> 0, events |-> << >>])

\* load_to_database after load_file has ended for type T (ld).
AfterLoadRequest(acc, T, records, ld) ==
    [acc EXCEPT !.last_load = Called(acc.last_load, acc.tables, T, records, ld.raised),
                !.now = acc.now + 1,
                !.tables[T] = IF ld.raised THEN @ ELSE ld.rows,
                !.total_loaded = IF ld.raised THEN @ ELSE @ + ld.loaded]

\* The loop of load_to_database over request.resource_types: load_file is
\* called without a job_id.
RECURSIVE load_to_database_from(_, _, _, _)
load_to_database_from(resource_types, i, failing, acc) ==
    IF i > Len(resource_types) THEN acc
    ELSE load_to_database_from(resource_types, i + 1, failing,
            IF ~acc.disk[acc.job_id].transformed[resource_types[i]].exists THEN acc
            ELSE AfterLoadRequest(acc, resource_types[i],
                    acc.disk[acc.job_id].transformed[resource_types[i]].content,
                    load_file(acc.tables,
                              acc.disk[acc.job_id].transformed[resource_types[i]].content,
                              resource_types[i], Null, acc.job_id, acc.now,
                              i \notin failing)))

\* transform_bulk_data after transform_file has ended for type T (tr).
AfterTransformRequest(acc, T, tr) ==
    IF tr.raised THEN [acc EXCEPT !.total_failed = @ + 1]
    ELSE [acc EXCEPT !.disk[acc.job_id].transformed[T] = File(tr.records),
                     !.total_processed = @ + tr.processed,
                     !.total_failed = @ + tr.failed]

\* The loop of transform_bulk_data over request.resource_types.
RECURSIVE transform_bulk_data_from(_, _, _)
transform_bulk_data_from(resource_types, i, acc) ==
    IF i > Len(resource_types) THEN acc
    ELSE transform_bulk_data_from(resource_types, i + 1,
            IF ~acc.disk[acc.job_id].ndjson[resource_types[i]].exists THEN acc
            ELSE AfterTransformRequest(acc, resource_types[i],
                    transform_file(acc.disk[acc.job_id].ndjson[resource_types[i]].content,
                                   resource_types[i])))

(***************************************************************************)
(* Job registry                                                            *)
(***************************************************************************)

\* A Job entity. Absent keys: status_url << >>, fhir_server_url Null,
\* resource_types << >>, completed_at NoInt, records_* NoInt, error << >>.
\* headers: NoHeaders when the entity has no "headers" key, else the value
\* of the Authorization header (Null: none).
NoHeaders == "<no headers>"

Job(method, status_url, fhir_server_url, resource_types, headers, t) ==
    [status |-> "in-progress", method |-> method, status_url |-> status_url,
     fhir_server_url |-> fhir_server_url, resource_types |-> resource_types,
     headers |-> headers, started_at |-> t, completed_at |-> NoInt,
     progress |-> Null, error |-> << >>, file_count |-> NoInt, files |-> << >>,
     records_transformed |-> NoInt, records_loaded |-> NoInt,
     transform_load_error |-> << >>, elapsed_seconds |-> NoInt]

NoReply == [op |-> Null, status_code |-> NoInt, job_id |-> Null, status |-> Null,
            records |-> NoInt, export_sent |-> FALSE, body |-> {}]

\* The reply of a handler to its caller.
HttpReply(op, status_code, job_id, status) ==
    [op |-> op, status_code |-> status_code, job_id |-> job_id, status |-> status,
     records |-> NoInt, export_sent |-> FALSE, body |-> {}]

NoLoad == [resource_type |-> Null, records |-> << >>, returned |-> FALSE,
           repeat |-> FALSE, before |-> << >>]

EmptyTables == [T \in ResourceTypes |-> << >>]

\* The orders in which list(set(...)) may list the members of S.
Orders(S) ==
    {o \in [1..Cardinality(S) -> S] : \A x \in S : \E i \in 1..Cardinality(S) : o[i] = x}

TypesOf(files) == {files[i].resource_type : i \in 1..Len(files)}

\* dict[key] = value
Put(f, k, v) == [x \in DOMAIN f \cup {k} |-> IF x = k THEN v ELSE f[x]]

\* os.makedirs(output_dir, exist_ok=True)
makedirs(d, job_id) == IF job_id \in DOMAIN d THEN d ELSE Put(d, job_id, EmptyDir)

\* What the registry, the disk, the database and the clock are at a point
\* of a handler or of a task step.
World == [jobs |-> jobs, disk |-> disk, tables |-> tables, now |-> now,
          last_load |-> last_load]

Commit(w) ==
    /\ jobs' = w.jobs
    /\ disk' = w.disk
    /\ tables' = w.tables
    /\ now' = w.now
    /\ last_load' = w.last_load

\* The end of auto_transform_and_load: the counts are recorded on the
\* registry entry.
Recorded(w, job_id, r) ==
    [w |-> [jobs |-> [w.jobs EXCEPT ![job_id].records_transformed = r.total_transformed,
                                    ![job_id].records_loaded = r.total_loaded],
            disk |-> r.disk, tables |-> r.tables, now |-> r.now,
            last_load |-> r.last_load],
     events |-> r.events]

\* auto_transform_and_load called by a task.
RunTransformAndLoad(w, job_id, resource_types, failing) ==
    Recorded(w, job_id,
             auto_transform_and_load(job_id, resource_types, w.disk, w.tables,
                                     w.now, w.last_load, failing))

\* str(e) of the exception of DatabaseLoader() when create_engine rejects
\* the database URL.
EngineErrorText == <<"e", "n", "g", "i", "n", "e">>

\* auto_transform_and_load when an exception reaches its outer try, here
\* from DatabaseLoader(): the message is stored as transform_load_error.
TransformAndLoadFailed(w, job_id) ==
    [w |-> [w EXCEPT !.jobs[job_id].transform_load_error = EngineErrorText],
     events |-> << >>]

\* The success branch of poll_export_status after download_bulk_files.
Completed(r, job_id) ==
    [w |-> [r.w EXCEPT !.jobs[job_id].status = "completed",
                       !.jobs[job_id].completed_at = r.w.now],
     events |-> r.events]

\* The end of download_bulk_files: the descriptors are recorded, and the
\* files that were downloaded are transformed and loaded (their types in
\* the order of list(set(...))).
AfterDownloads(recorded, job_id, files_downloaded, order, failing) ==
    IF files_downloaded = << >> THEN [w |-> recorded, events |-> << >>]
    ELSE RunTransformAndLoad(recorded, job_id, order, failing)

\* The end of download_bulk_files and of the success branch of
\* poll_export_status.
CompleteDownloads(w, job_id, files_downloaded, order, failing) ==
    Completed(AfterDownloads([w EXCEPT !.jobs[job_id].files = files_downloaded],
                             job_id, files_downloaded, order, failing),
              job_id)

(***************************************************************************)
(* Loading: jobs whose files are downloaded, /process, /load-to-database   *)
(***************************************************************************)

MaxTime == 3

othersLoad == <<rt, signer, callers, clock, tasks>>

IdleExceptLoad ==
    /\ rt = Null
    /\ signer = Null
    /\ callers = << >>
    /\ clock = 0
    /\ tasks = << >>

Dir(patients, conditions) ==
    [EmptyDir EXCEPT !.ndjson["Patient"] = patients, !.ndjson["Condition"] = conditions]

\* Files that a server may have delivered for a job.
DownloadedDirs ==
    {Dir(File(<<ResA, ResA2>>), File(<<ResA, ResDangling>>)),
     Dir(File(<<ResA2, ResEmptyId, BadLine>>), File(<<ResA2, ResB>>)),
     Dir(File(<<ResB, ResNoId>>), NoFile),
     Dir(File(<<ResA>>), File(<<ResA>>))}

LoadJobIds == {"J1", "J2"}

\* The job_id of a request to /process or /load-to-database.
RequestJobIds == LoadJobIds \cup {"J0"}

RequestTypeLists == {<<"Patient">>, <<"Condition">>, <<"Patient", "Condition">>}

\* The position of the load whose commit fails: none, or the first.
FailingCommits == {{}, {1}}

Descriptors(dir) ==
    (IF dir.ndjson["Patient"].exists
     THEN <<[resource_type |-> "Patient", lines |-> Len(dir.ndjson["Patient"].content)]>>
     ELSE << >>)
    \o (IF dir.ndjson["Condition"].exists
        THEN <<[resource_type |-> "Condition",
                lines |-> Len(dir.ndjson["Condition"].content)]>>
        ELSE << >>)

\* Two jobs in status downloading, all their files on disk.
InitLoad ==
    /\ IdleExceptLoad
    /\ \E d1, d2 \in DownloadedDirs : disk = [j \in LoadJobIds |-> IF j = "J1" THEN d1 ELSE d2]
    /\ jobs = [j \in LoadJobIds |->
                [Job("bulk_export", <<"srv", j>>, "srv", <<"Patient", "Condition">>,
                     Null, 0) EXCEPT !.status = "downloading", !.file_count = 2]]
    /\ tables = EmptyTables
    /\ now = 0
    /\ reply = NoReply
    /\ last_load = NoLoad

\* The last download of job j has ended.
DownloadsCompleted(j, order, failing) ==
    /\ jobs[j].status = "downloading"
    /\ now + Len(order) <= MaxTime
    /\ Commit(CompleteDownloads(World, j, Descriptors(disk[j]), order, failing).w)
    /\ reply' = NoReply
    /\ UNCHANGED othersLoad

\* The last download of job j has ended, and the database engine cannot be
\* created.
DownloadsCompletedLoaderFails(j) ==
    /\ jobs[j].status = "downloading"
    /\ Descriptors(disk[j]) # << >>
    /\ Commit(Completed(TransformAndLoadFailed(
                            [World EXCEPT !.jobs[j].files = Descriptors(disk[j])], j),
                        j).w)
    /\ reply' = NoReply
    /\ UNCHANGED othersLoad

\* POST /process
transform_bulk_data(job_id, resource_types) ==
    /\ IF job_id \notin DOMAIN disk
       THEN /\ reply' = [NoReply EXCEPT !.op = "process", !.status_code = 404]
            /\ UNCHANGED disk
       ELSE \E r \in {transform_bulk_data_from(resource_types, 1,
                        [job_id |-> job_id, disk |-> disk, total_processed |-> 0,
                         total_failed |-> 0])} :
                /\ disk' = r.disk
                /\ reply' = [op |-> "process", status_code |-> 200, job_id |-> job_id,
                             status |-> IF r.total_failed = 0 THEN "completed"
                                        ELSE "completed_with_errors",
                             records |-> r.total_processed]
    /\ UNCHANGED <<jobs, tables, now, last_load>>
    /\ UNCHANGED othersLoad

\* Whether BULK_DATA_DIR/<job_id>/transformed exists.
TransformedDirExists(job_id) ==
    /\ job_id \in DOMAIN disk
    /\ \E T \in ResourceTypes : disk[job_id].transformed[T].exists

\* POST /load-to-database
load_to_database(job_id, resource_types, failing) ==
    /\ now + Len(resource_types) <= MaxTime
    /\ IF ~TransformedDirExists(job_id)
       THEN /\ reply' = [NoReply EXCEPT !.op = "load-to-database", !.status_code = 404]
            /\ UNCHANGED <<tables, now, last_load>>
       ELSE \E r \in {load_to_database_from(resource_types, 1, failing,
                        [job_id |-> job_id, disk |-> disk, tables |-> tables,
                         now |-> now, last_load |-> last_load, total_loaded |-> 0])} :
                /\ tables' = r.tables
                /\ now' = r.now
                /\ last_load' = r.last_load
                /\ reply' = [op |-> "load-to-database", status_code |-> 200,
                             job_id |-> job_id, status |-> "completed",
                             records |-> r.total_loaded]
    /\ UNCHANGED <<jobs, disk>>
    /\ UNCHANGED othersLoad

NextLoad ==
    \/ \E j \in LoadJobIds : \E order \in Orders(TypesOf(Descriptors(disk[j]))) :
          \E failing \in FailingCommits : DownloadsCompleted(j, order, failing)
    \/ \E j \in RequestJobIds : \E types \in RequestTypeLists :
          transform_bulk_data(j, types)
    \/ \E j \in RequestJobIds : \E types \in RequestTypeLists :
          \E failing \in FailingCommits : load_to_database(j, types, failing)

SpecLoad == InitLoad /\ [][NextLoad]_vars

\* C25: when the commit of the first file that a job loads fails, the table
\* of that file is left as it was and the file adds nothing to the job's
\* records_loaded; the type after it is still transformed and loaded (its
\* rows and its count are those of its own load), and the job is completed.
C25_FailedCommitLeavesTable ==
    [][\A j \in LoadJobIds :
          jobs[j].status = "downloading" =>
             \A order \in Orders(TypesOf(Descriptors(disk[j]))) :
                (order # << >> /\ DownloadsCompleted(j, order, {1})) =>
                   /\ tables'[order[1]] = tables[order[1]]
                   /\ jobs'[j].status = "completed"
                   /\ Len(order) = 1 => jobs'[j].records_loaded = 0
                   /\ Len(order) = 2 =>
                         LET T == order[2]
                             ld == load_file(tables,
                                      transform_file(disk[j].ndjson[T].content, T).records,
                                      T, j, j, now + 1, TRUE)
                         IN  /\ disk'[j].transformed[T].exists
                             /\ tables'[T] = ld.rows
                             /\ jobs'[j].records_loaded = ld.loaded]_vars

\* A job has ended whose Patient file could not be committed: the Patient
\* row that an earlier load stored is as it was, the job's Condition is
\* stored, and one of the two records transformed is counted as loaded.
C25_Witness ==
    \E j \in LoadJobIds :
        /\ jobs[j].status = "completed"
        /\ jobs[j].records_transformed = 2
        /\ jobs[j].records_loaded = 1
        /\ tables["Patient"] # << >>
        /\ \A i \in 1..Len(tables["Patient"]) : tables["Patient"][i].loaded_for # j
        /\ \E i \in 1..Len(tables["Condition"]) : tables["Condition"][i].loaded_for = j

\* The rows of the tables without the times at which they were written.
Contents(tbls) ==
    [T \in ResourceTypes |->
        [i \in 1..Len(tbls[T]) |->
            [tbls[T][i] EXCEPT !.created_at = NoInt,
                               !.updated_at = IF @ = NoInt THEN NoInt ELSE 0]]]

\* C30: when the downloads of a job have ended and every commit succeeds,
\* the rows stored and the job's records_loaded are the same for every
\* order in which the types of its files are transformed and loaded.
C30_OrderOfTypesIsIrrelevant ==
    [][\A j \in LoadJobIds :
          jobs[j].status = "downloading" =>
             \A order \in Orders(TypesOf(Descriptors(disk[j]))) :
                DownloadsCompleted(j, order, {}) =>
                   \A other \in Orders(TypesOf(Descriptors(disk[j]))) :
                      /\ Contents(tables') =
                            Contents(CompleteDownloads(World, j, Descriptors(disk[j]),
                                                       other, {}).w.tables)
                      /\ jobs'[j].records_loaded =
                            CompleteDownloads(World, j, Descriptors(disk[j]),
                                              other, {}).w.jobs[j].records_loaded]_vars

AllRows(T) == {tables[T][i] : i \in 1..Len(tables[T])}

(***************************************************************************)
(* The registry while jobs end: status and list requests, and a database   *)
(* engine that may fail to be created                                      *)
(***************************************************************************)

\* GET /status/{job_id}
get_export_status(job_id) ==
    /\ IF job_id \notin DOMAIN jobs
       THEN /\ reply' = HttpReply("status", 404, Null, Null)
            /\ UNCHANGED jobs
       ELSE /\ jobs' = [jobs EXCEPT ![job_id].elapsed_seconds = now - jobs[job_id].started_at]
            /\ reply' = [HttpReply("status", 200, job_id, jobs[job_id].status) EXCEPT
                            !.body = {jobs'[job_id]}]
    /\ UNCHANGED <<disk, tables, now, last_load>>
    /\ UNCHANGED othersLoad

\* An element of "jobs" in the reply of list_jobs.
JobSummary(job_id, job_info) ==
    [job_id |-> job_id, status |-> job_info.status, method |-> job_info.method,
     started_at |-> job_info.started_at, completed_at |-> job_info.completed_at,
     resource_types |-> job_info.resource_types,
     files_downloaded |-> Len(job_info.files),
     records_loaded |-> job_info.records_loaded, status_url |-> job_info.status_url]

\* GET /jobs
list_jobs ==
    /\ reply' = [HttpReply("jobs", 200, Null, Null) EXCEPT
                    !.records = Cardinality(DOMAIN jobs),
                    !.body = {JobSummary(job_id, jobs[job_id]) : job_id \in DOMAIN jobs}]
    /\ UNCHANGED <<jobs, disk, tables, now, last_load>>
    /\ UNCHANGED othersLoad

NextRegistry ==
    \/ \E j \in LoadJobIds : \E order \in Orders(TypesOf(Descriptors(disk[j]))) :
          \E failing \in FailingCommits : DownloadsCompleted(j, order, failing)
    \/ \E j \in LoadJobIds : DownloadsCompletedLoaderFails(j)
    \/ \E j \in RequestJobIds : get_export_status(j)
    \/ list_jobs

SpecRegistry == InitLoad /\ [][NextRegistry]_vars

\* C12: a fatal failure inside a job's background task (here in transform
\* and load) leaves the job with status failed and the error message stored
\* on the job.
C12_FatalFailureFailsJob ==
    \A j \in DOMAIN jobs :
        jobs[j].transform_load_error # << >> =>
            /\ jobs[j].status = "failed"
            /\ jobs[j].error = jobs[j].transform_load_error

\* C14: a job's registry entry is written only by the task that drives the
\* job: no task of another job and no registry operation (status, list)
\* changes it.
C14_SingleWriter ==
    [][\A j \in DOMAIN jobs :
          jobs'[j] # jobs[j] =>
             \/ DownloadsCompletedLoaderFails(j)
             \/ \E order \in Orders(TypesOf(Descriptors(disk[j]))) :
                   \E failing \in FailingCommits : DownloadsCompleted(j, order, failing)]_vars

\* C3: every stored row carries as job_id the id of the job of the most
\* recent load that wrote it, whether the load was run by
\* auto_transform_and_load or by the load-to-database operation for a job.
C3_RowCarriesJobOfLastLoad ==
    \A T \in ResourceTypes : \A row \in AllRows(T) : row.job_id = row.loaded_for

\* C4: each table holds at most one row per fhir_id, and no stored row has a
\* missing or an empty fhir_id.
C4_FhirIdUniqueNonEmpty ==
    \A T \in ResourceTypes :
        /\ \A i, k \in 1..Len(tables[T]) :
              tables[T][i].fhir_id = tables[T][k].fhir_id => i = k
        /\ \A row \in AllRows(T) : row.fhir_id \notin {Null, ""}

\* The columns of a row other than job_id and updated_at.
OtherColumns(row) ==
    [fhir_id |-> row.fhir_id, patient_id |-> row.patient_id, text |-> row.text,
     extra |-> row.extra, raw_data |-> row.raw_data, created_at |-> row.created_at]

\* C7: when load_file is called with the records it was called with just
\* before, for the same table, and that first call returned, then the second
\* call (with the same or another job_id, committed or not) leaves the table
\* with the same number of rows and changes no column of any row other than
\* job_id and updated_at.
C7_SecondLoadKeepsRows ==
    last_load.repeat =>
        LET after == tables[last_load.resource_type]
        IN  /\ Len(after) = Len(last_load.before)
            /\ \A i \in 1..Len(after) :
                  OtherColumns(after[i]) = OtherColumns(last_load.before[i])

\* A second load that returned and rewrote a stored row under another job_id.
C7_Witness ==
    /\ last_load.repeat
    /\ last_load.returned
    /\ \E i \in 1..Len(last_load.before) :
          /\ tables[last_load.resource_type][i].job_id # last_load.before[i].job_id
          /\ tables[last_load.resource_type][i].updated_at > last_load.before[i].updated_at

\* The positions in records of the records with the given fhir_id.
Incoming(records, fhir_id) == {n \in 1..Len(records) : records[n].fhir_id = fhir_id}

\* C21: when load_file has upserted a record whose fhir_id already had a row,
\* the extracted fields of the row and its raw_data are those of the incoming
\* record (the last one of the file with that fhir_id), updated_at is set, and
\* job_id is the job that the load was run for.
C21_ConflictUpdatesEveryColumn ==
    (last_load.returned /\ tables[last_load.resource_type] # last_load.before) =>
        \A i \in 1..Len(last_load.before) :
            Incoming(last_load.records, last_load.before[i].fhir_id) # {} =>
                LET row == tables[last_load.resource_type][i]
                    S == Incoming(last_load.records, row.fhir_id)
                    record == last_load.records[CHOOSE n \in S : \A m \in S : m <= n]
                IN  /\ row.text = record.text
                    /\ row.extra = record.extra
                    /\ row.raw_data = record.raw_data
                    /\ row.updated_at # NoInt
                    /\ row.job_id = row.loaded_for

(***************************************************************************)
(* Texts                                                                   *)
(***************************************************************************)

LowerOf ==
    ("A" :> "a") @@ ("B" :> "b") @@ ("C" :> "c") @@ ("D" :> "d") @@ ("E" :> "e") @@
    ("F" :> "f") @@ ("G" :> "g") @@ ("H" :> "h") @@ ("I" :> "i") @@ ("J" :> "j") @@
    ("K" :> "k") @@ ("L" :> "l") @@ ("M" :> "m") @@ ("N" :> "n") @@ ("O" :> "o") @@
    ("P" :> "p") @@ ("Q" :> "q") @@ ("R" :> "r") @@ ("S" :> "s") @@ ("T" :> "t") @@
    ("U" :> "u") @@ ("V" :> "v") @@ ("W" :> "w") @@ ("X" :> "x") @@ ("Y" :> "y") @@
    ("Z" :> "z")

\* str.lower()
lower(text) ==
    [i \in 1..Len(text) |-> IF text[i] \in DOMAIN LowerOf THEN LowerOf[text[i]] ELSE text[i]]

RECURSIVE lstrip(_)
lstrip(text) ==
    IF text # << >> /\ Head(text) = " " THEN lstrip(Tail(text)) ELSE text

RECURSIVE rstrip(_)
rstrip(text) ==
    IF text # << >> /\ Last(text) = " " THEN rstrip(SubSeq(text, 1, Len(text) - 1))
    ELSE text

\* str.strip()
strip(text) == rstrip(lstrip(text))

\* pattern in text
Contains(text, pattern) ==
    \E i \in 0..(Len(text) - Len(pattern)) : SubSeq(text, i + 1, i + Len(pattern)) = pattern

TOO_MANY_FILES == <<"t", "o", "o", " ", "m", "a", "n", "y", " ", "f", "i", "l", "e", "s">>

\* Texts that a server may send.
TooManyFilesText == <<"T", "o", "o", " ", "M", "a", "n", "y", " ", "F", "i", "l", "e", "s">>

DeniedText == <<"d", "e", "n", "i", "e", "d">>

BlankText == <<" ">>

\* str(e) of the exceptions that the tasks catch.
ConnectErrorText == <<"c", "o", "n", "n", "e", "c", "t">>

TypeErrorText == <<"T", "y", "p", "e">>

ZeroDivisionErrorText == <<"d", "i", "v", " ", "b", "y", " ", "0">>

(***************************************************************************)
(* Export manifests and other responses of the FHIR server                 *)
(***************************************************************************)

\* The value of the "error" key of a manifest: no key, a string, or a list
\* of strings.
NoError == [kind |-> "absent", text |-> << >>, items |-> << >>]

ErrorString(text) == [kind |-> "str", text |-> text, items |-> << >>]

ErrorList(items) == [kind |-> "list", text |-> << >>, items |-> items]

\* The "OperationOutcome" key of a manifest.
NoOutcome == [present |-> FALSE, text |-> << >>]

Outcome(text) == [present |-> TRUE, text |-> text]

\* An entry of "output". url: whether it has one.
Output(type, url) == [type |-> type, url |-> url]

Manifest(error, outcome, output) ==
    [error |-> error, OperationOutcome |-> outcome, output |-> output]

\* str(error_value)
str(error_value) ==
    IF error_value.kind = "str" THEN error_value.text
    ELSE IF error_value.items = << >> THEN <<"[", "]">>
    ELSE <<"[", "'">> \o error_value.items[1] \o <<"'", "]">>

ErrorFieldPresent(error_value) == error_value.kind # "absent"

\* The error detection of poll_export_status: whether the manifest carries
\* a real error.
error_is_real(error_value) ==
    \/ error_value.kind = "str" /\ error_value.text # << >> /\ strip(error_value.text) # << >>
    \/ error_value.kind = "list" /\ Len(error_value.items) > 0

has_error(result) == error_is_real(result.error) \/ result.OperationOutcome.present

error_msg(result) ==
    IF result.OperationOutcome.present THEN result.OperationOutcome.text
    ELSE IF error_is_real(result.error) THEN str(result.error)
    ELSE << >>

Manifests ==
    {Manifest(ErrorString(BlankText), NoOutcome,
              <<Output("Condition", FALSE), Output("Patient", TRUE)>>),
     Manifest(NoError, NoOutcome,
              <<Output("Condition", FALSE), Output("Patient", TRUE)>>),
     Manifest(ErrorList(<< >>), NoOutcome, << >>),
     Manifest(ErrorString(<< >>), NoOutcome, << >>),
     Manifest(ErrorString(TooManyFilesText), NoOutcome, << >>),
     Manifest(ErrorString(DeniedText), NoOutcome, << >>),
     Manifest(ErrorString(TooManyFilesText), Outcome(DeniedText), << >>)}

\* What retry_http_call ends with: a response whose status is not one of
\* retryable_status_codes, or an exception (TypeError when the attempts are
\* used up on retryable statuses, see Exhausted).
ErrorText(error) == IF error = "TypeError" THEN TypeErrorText ELSE ConnectErrorText

\* Content-Location of a 202 to $export, split at "/" (<< >>: no header).
StatusUrls == {<<"srv", "s1">>}

ContentLocations == StatusUrls \cup {<< >>}

\* retry_with_backoff's wrapper from the given attempt on, when the server
\* answers every attempt in the same way.
RECURSIVE retry_attempts(_, _, _, _)
retry_attempts(config, answer, attempt, last_error) ==
    IF ~LoopGuard(config, attempt) THEN Exhausted(last_error)
    ELSE IF answer.kind = "response"
    THEN IF should_retry(config, attempt, Null, answer.status_code)
         THEN retry_attempts(config, answer, attempt + 1, last_error)
         ELSE [kind |-> "response", status_code |-> answer.status_code, error |-> Null]
    ELSE IF should_retry(config, attempt, answer.error, NoInt)
         THEN retry_attempts(config, answer, attempt + 1, answer.error)
         ELSE [kind |-> "raised", status_code |-> NoInt, error |-> answer.error]

retry_http_call(config, answer) == retry_attempts(config, answer, 0, Null)

\* What the server answers to the $export request: a status (with the
\* Content-Location of a 202), or the connection fails.
ExportAnswers ==
    {[kind |-> "exception", status_code |-> NoInt, error |-> "ConnectError",
      content_location |-> << >>]}
    \cup {[kind |-> "response", status_code |-> 202, error |-> Null,
           content_location |-> u] : u \in ContentLocations}
    \cup {[kind |-> "response", status_code |-> s, error |-> Null,
           content_location |-> << >>] : s \in {404, 503}}

\* response = await retry_http_call(...) of kick_off_bulk_export; answered
\* is the status that the server gave.
KickOffResult(answer, r) ==
    [kind |-> r.kind, status_code |-> r.status_code, error |-> r.error,
     content_location |-> answer.content_location, answered |-> answer.status_code]

KickOffResults ==
    {KickOffResult(answer, retry_http_call(RETRY_CONFIG_NETWORK, answer)) :
        answer \in ExportAnswers}

PollResults ==
    {[kind |-> "raised", status_code |-> NoInt, error |-> e, manifest |-> Manifest(NoError, NoOutcome, << >>),
      progress |-> Null, text |-> << >>] : e \in {"ConnectError"}}
    \cup {[kind |-> "response", status_code |-> 200, error |-> Null, manifest |-> m,
           progress |-> Null, text |-> << >>] : m \in Manifests}
    \cup {[kind |-> "response", status_code |-> 202, error |-> Null,
           manifest |-> Manifest(NoError, NoOutcome, << >>),
           progress |-> x, text |-> << >>] : x \in {Null, "50%"}}
    \cup {[kind |-> "response", status_code |-> 400, error |-> Null,
           manifest |-> Manifest(NoError, NoOutcome, << >>),
           progress |-> Null, text |-> x] : x \in {TooManyFilesText, DeniedText}}

DownloadContents == {<<ResA, BadLine>>}

DownloadResults ==
    {[kind |-> "raised", status_code |-> NoInt, content |-> << >>]}
    \cup {[kind |-> "response", status_code |-> 200, content |-> c] : c \in DownloadContents}
    \cup {[kind |-> "response", status_code |-> 404, content |-> << >>]}

\* An entry of a search bundle, with or without a "resource".
Entry(resource) == [present |-> TRUE, resource |-> resource]

EntryWithoutResource == [present |-> FALSE, resource |-> BadLine]

\* A search bundle. next: whether it has a link of relation "next".
Bundle(entry, next) == [entry |-> entry, next |-> next]

Bundles ==
    {Bundle(<<Entry(ResA), EntryWithoutResource>>, FALSE),
     Bundle(<< >>, FALSE),
     Bundle(<<Entry(ResA)>>, TRUE)}

SearchResults ==
    {[kind |-> "raised", status_code |-> NoInt, bundle |-> Bundle(<< >>, FALSE)]}
    \cup {[kind |-> "response", status_code |-> 200, bundle |-> b] : b \in Bundles}
    \cup {[kind |-> "response", status_code |-> 404, bundle |-> Bundle(<< >>, FALSE)]}

(***************************************************************************)
(* Export driver: kick-off, resume, polling, download, search fallback     *)
(***************************************************************************)

MaxTasks == 2

MaxPolls == 1

MaxNextLinks == 1

max_pages == 10

othersJobs == <<rt, signer, callers, clock>>

IdleExceptJobs ==
    /\ rt = Null
    /\ signer = Null
    /\ callers = << >>
    /\ clock = 0

\* A background task: the function that it runs with its arguments, the
\* await at which it stands (pc), its local variables, and the events of its
\* job so far.
Task(fn, pc, job_id, status_url, fhir_server_url, resource_types, since, headers, events) ==
    [fn |-> fn, pc |-> pc, job_id |-> job_id, status_url |-> status_url,
     fhir_server_url |-> fhir_server_url, resource_types |-> resource_types,
     since |-> since, headers |-> headers, poll_count |-> 0,
     output_files |-> << >>, idx |-> 0, files_downloaded |-> << >>,
     i |-> 0, page_count |-> 0, resources |-> << >>, files_created |-> << >>,
     total_resources |-> 0, requests |-> 0, trace |-> events]

\* A task that has returned: its locals are gone.
Returned(task) ==
    Task(task.fn, "done", task.job_id, << >>, Null, << >>, Null, Null, task.trace)

LoggedAndRefreshed(task, events) ==
    [task EXCEPT !.trace = task.trace \o events, !.headers = "Bearer r"]

Logged(task, events) == [task EXCEPT !.trace = task.trace \o events]

NotFailed(w, job_id, text) == w

\* jobs[job_id]["status"] = "failed"; jobs[job_id]["error"] = text
Failed(w, job_id, text) ==
    [w EXCEPT !.jobs[job_id].status = "failed", !.jobs[job_id].error = text]

InitJobs ==
    /\ IdleExceptJobs
    /\ jobs = << >>
    /\ tasks = << >>
    /\ disk = << >>
    /\ tables = EmptyTables
    /\ now = 0
    /\ reply = NoReply
    /\ last_load = NoLoad

\* A kick-off request. auth: how it authenticates: not at all, with
\* bearer_token, or with SMART backend services (get_auth_header returned, or
\* raised).
BulkDataRequest(fhir_server_url, resource_types, since, auth) ==
    [fhir_server_url |-> fhir_server_url, resource_types |-> resource_types,
     since |-> since, auth |-> auth]

KickOffRequests ==
    {BulkDataRequest("", <<"Patient">>, Null, "none"),
     BulkDataRequest("srv", <<"Patient">>, "2024", "none"),
     BulkDataRequest("srv", << >>, Null, "bearer"),
     BulkDataRequest("srv", <<"Patient", "Patient">>, Null, "smart"),
     BulkDataRequest("srv", <<"Patient">>, Null, "smart_failed")}

Authorization(auth) ==
    CASE auth = "bearer" -> "Bearer b"
      [] auth = "smart" -> "Bearer s"
      [] OTHER -> Null

AuthNeverFails(auth) == FALSE

\* if request.use_smart_auth: ... except Exception: 401
AuthFailed(auth) == auth = "smart_failed"

\* if since: (None and "" are not a since)
HasSince(since) == since \notin {Null, ""}

\* The parameters of the $export request.
ExportParams(request) ==
    [_since |-> IF HasSince(request.since) THEN request.since ELSE Null]

\* The reply to a kick-off that has sent the $export request.
AfterExport(status_code, job_id, status) ==
    [HttpReply("kick-off", status_code, job_id, status) EXCEPT !.export_sent = TRUE]

\* The first event of a job: the request that began it, with its since.
KickedOff(since) == Event("kickoff", since)

\* The first page request of a type is sent: T is its _lastUpdated.
FirstPage(since) == Event("first_page", IF HasSince(since) THEN "ge" \o since ELSE Null)

\* POST /kick-off
kick_off_bulk_export(request, result) ==
    LET fhir_server_url == request.fhir_server_url
        resource_types == request.resource_types
        auth == request.auth
        headers == Authorization(auth)
        t == now
        status_url == result.content_location
        \* str(datetime.now().timestamp()): the seconds and a fraction, which
        \* differs between two calls.
        bulk_id == IF status_url # << >> THEN Last(status_url)
                   ELSE ToString(t) \o "." \o ToString(Len(tasks))
        search_id == "search_" \o ToString(t)
    IN  /\ IF fhir_server_url = ""
           THEN /\ reply' = HttpReply("kick-off", 400, Null, Null)
                /\ UNCHANGED <<jobs, tasks>>
           ELSE IF AuthFailed(auth)
           THEN /\ reply' = HttpReply("kick-off", 401, Null, Null)
                /\ UNCHANGED <<jobs, tasks>>
           ELSE IF result.kind = "raised"
           THEN /\ reply' = AfterExport(500, Null, Null)
                /\ UNCHANGED <<jobs, tasks>>
           ELSE IF result.status_code = 202
           THEN /\ Len(tasks) < MaxTasks
                /\ jobs' = Put(jobs, bulk_id,
                               Job("bulk_export", status_url, fhir_server_url,
                                   resource_types, headers, t))
                /\ tasks' = Append(tasks,
                               Task("poll_export_status", "poll", bulk_id, status_url,
                                    Null, << >>, Null, headers,
                                    <<KickedOff(request.since)>>))
                /\ reply' = AfterExport(200, bulk_id, "accepted")
           ELSE /\ Len(tasks) < MaxTasks
                /\ jobs' = Put(jobs, search_id,
                               Job("fhir_search", << >>, fhir_server_url,
                                   resource_types, NoHeaders, t))
                /\ tasks' = Append(tasks,
                               Task("fetch_via_search", "start", search_id, << >>,
                                    fhir_server_url, resource_types, request.since,
                                    headers,
                                    <<KickedOff(request.since)>>))
                /\ reply' = AfterExport(200, search_id, "accepted")
        /\ UNCHANGED <<disk, tables, now, last_load>>
        /\ UNCHANGED othersJobs

NeverMonitoring(job_id) == FALSE

\* if job_id in jobs
AlreadyMonitoring(job_id) == job_id \in DOMAIN jobs

ResumeId(status_url) == "resume_" \o Last(status_url)

BearerTokens == {Null, "b"}


\* POST /resume
resume_bulk_export(status_url, bearer_token) ==
    LET job_id == ResumeId(status_url)
        headers == IF bearer_token # Null THEN "Bearer " \o bearer_token ELSE Null
    IN  /\ IF AlreadyMonitoring(job_id)
           THEN /\ reply' = HttpReply("resume", 200, job_id, "resumed")
                /\ UNCHANGED <<jobs, tasks>>
           ELSE /\ Len(tasks) < MaxTasks
                /\ jobs' = Put(jobs, job_id,
                               Job("bulk_export_resumed", status_url, Null, << >>,
                                   headers, now))
                /\ tasks' = Append(tasks,
                               Task("poll_export_status", "poll", job_id, status_url,
                                    Null, << >>, Null, headers,
                                    <<Event("resume", Null)>>))
                /\ reply' = HttpReply("resume", 200, job_id, "resumed")
        /\ UNCHANGED <<disk, tables, now, last_load>>
        /\ UNCHANGED othersJobs

\* The index of the first entry of output after idx that has a url (0: none).
NextUrl(output_files, idx) ==
    LET S == {n \in (idx + 1)..Len(output_files) : output_files[n].url}
    IN  IF S = {} THEN 0 ELSE CHOOSE n \in S : \A m \in S : n <= m

\* fetch_via_search from its call to its first request: with no resource
\* type, ProgressTracker.complete() divides by zero and the job fails.
BeginSearch(w, task, fhir_server_url, resource_types, since) ==
    LET made == [w EXCEPT !.disk = makedirs(w.disk, task.job_id)]
    IN  IF resource_types = << >>
        THEN [w |-> [Failed(made, task.job_id, ZeroDivisionErrorText) EXCEPT
                        !.jobs[task.job_id].completed_at = w.now],
              task |-> Returned(task)]
        ELSE [w |-> made,
              task |-> [Logged(task, <<FirstPage(since)>>) EXCEPT
                                    !.pc = "search",
                                    !.fhir_server_url = fhir_server_url,
                                    !.resource_types = resource_types,
                                    !.since = since, !.i = 1, !.page_count = 0,
                                    !.resources = << >>, !.files_created = << >>,
                                    !.total_resources = 0, !.requests = 1]]

\* fetch_via_search returns.
SearchReturned(r, task) == [w |-> r.w, task |-> Returned(Logged(task, r.events))]

\* The end of fetch_via_search: the job is completed, and the files are
\* transformed and loaded for every requested type.
FinishSearch(w, task) ==
    SearchReturned(
        IF task.total_resources > 0
        THEN RunTransformAndLoad(
                [w EXCEPT !.jobs[task.job_id].status = "completed",
                          !.jobs[task.job_id].files = task.files_created,
                          !.jobs[task.job_id].completed_at = w.now],
                task.job_id, task.resource_types, {})
        ELSE [w |-> [w EXCEPT !.jobs[task.job_id].status = "completed",
                              !.jobs[task.job_id].files = task.files_created,
                              !.jobs[task.job_id].completed_at = w.now],
              events |-> << >>],
        task)

\* fetch_via_search after the pages of a type: the resources are saved, and
\* the next type is searched.
EndOfType(w, task, resources) ==
    LET T == task.resource_types[task.i]
        saved == IF resources = << >> THEN w
                 ELSE [w EXCEPT !.disk[task.job_id].ndjson[T] =
                          File([n \in 1..Len(resources) |->
                                  [resources[n] EXCEPT !.parses = TRUE]])]
        after == [task EXCEPT
                    !.files_created =
                        IF resources = << >> THEN @
                        ELSE Append(@, [resource_type |-> T, lines |-> Len(resources)]),
                    !.total_resources = @ + Len(resources),
                    !.i = @ + 1, !.page_count = 0, !.resources = << >>]
    IN  IF after.i <= Len(task.resource_types)
        THEN [w |-> saved,
              task |-> [Logged(after, <<FirstPage(task.since)>>) EXCEPT !.requests = 1]]
        ELSE With(saved, LAMBDA s : FinishSearch(s, after))

\* The resources of the entries of a bundle.
RECURSIVE ResourcesOf(_)
ResourcesOf(entry) ==
    IF entry = << >> THEN << >>
    ELSE (IF Head(entry).present THEN <<Head(entry).resource>> ELSE << >>)
         \o ResourcesOf(Tail(entry))

MorePagesAlways(page_count) == TRUE

\* while page_count < max_pages
MorePages(page_count) == page_count < max_pages

\* fetch_via_search when the request for a page has ended: with a next
\* link and the loop's test passed, the request for the next page is sent.
SearchPage(w, task, result) ==
    LET ok == result.kind = "response" /\ result.status_code = 200
        entries == IF ok THEN result.bundle.entry ELSE << >>
        resources == task.resources \o ResourcesOf(entries)
        page_count == task.page_count + 1
    IN  IF ok /\ entries # << >> /\ result.bundle.next /\ MorePages(page_count)
        THEN [w |-> w,
              task |-> [task EXCEPT !.resources = resources, !.page_count = page_count,
                                    !.requests = @ + 1]]
        ELSE EndOfType(w, task, resources)

\* if fhir_server_url and resource_types
CanFallBackAlways(job_info) == TRUE

CanFallBack(job_info) ==
    /\ job_info.fhir_server_url \notin {Null, ""}
    /\ job_info.resource_types # << >>

\* The "too many files" heuristic of poll_export_status on an error text.
OnExportError(w, task, text) ==
    LET id == task.job_id
        job_info == w.jobs[id]
    IN  IF Contains(lower(text), TOO_MANY_FILES) /\ CanFallBack(job_info)
        THEN BeginSearch([w EXCEPT !.jobs[id].status = "in-progress",
                                   !.jobs[id].method = "fhir_search"],
                         Logged(task, <<Event("fallback", Null)>>),
                         job_info.fhir_server_url, job_info.resource_types, Null)
        ELSE [w |-> Failed(w, id, text), task |-> Returned(task)]

\* poll_export_status on a 200 without a real error, up to the first
\* download request (or to its end when nothing is to download).
OnManifest(w, task, result) ==
    LET id == task.job_id
        output_files == result.output
        downloading == [w EXCEPT !.jobs[id].status = "downloading",
                                 !.jobs[id].file_count = Len(output_files),
                                 !.disk = makedirs(w.disk, id)]
        first == NextUrl(output_files, 0)
        manifest == Logged(task, <<Event("manifest", Null)>>)
    IN  IF output_files = << >>
        THEN [w |-> [downloading EXCEPT !.jobs[id].status = "completed",
                                        !.jobs[id].completed_at = w.now],
              task |-> Returned(manifest)]
        ELSE IF first = 0
        THEN [w |-> CompleteDownloads(downloading, id, << >>, << >>, {}).w,
              task |-> Returned(manifest)]
        ELSE [w |-> downloading,
              task |-> [manifest EXCEPT !.pc = "download",
                                        !.output_files = output_files,
                                        !.idx = first, !.files_downloaded = << >>]]

\* poll_export_status when a status request has ended.
Polled(w, task, result) ==
    LET id == task.job_id
        polled == [Logged(task, IF task.poll_count = 0 THEN <<Event("poll", Null)>>
                                ELSE << >>)
                      EXCEPT !.poll_count = @ + 1]
    IN  IF result.kind = "raised"
        THEN [w |-> Failed(w, id, ErrorText(result.error)), task |-> Returned(polled)]
        ELSE IF result.status_code = 200
        THEN IF has_error(result.manifest)
             THEN OnExportError(w, polled, error_msg(result.manifest))
             ELSE OnManifest(w, polled, result.manifest)
        ELSE IF result.status_code = 202
        THEN [w |-> IF result.progress # Null
                    THEN [w EXCEPT !.jobs[id].progress = result.progress]
                    ELSE w,
              task |-> polled]
        ELSE OnExportError(w, polled, result.text)

\* A step of a task of poll_export_status: one status request.
PollStep(k, result) ==
    /\ k \in 1..Len(tasks)
    /\ tasks[k].pc = "poll"
    /\ tasks[k].status_url = << >> => result.kind = "raised"
    /\ result.kind = "response" /\ result.status_code = 202 =>
          tasks[k].poll_count < MaxPolls
    /\ \E r \in {Polled(World, tasks[k], result)} :
          /\ Commit(r.w)
          /\ tasks' = [tasks EXCEPT ![k] = r.task]
    /\ reply' = NoReply
    /\ UNCHANGED othersJobs

\* poll_export_status returns after download_bulk_files.
PollReturned(c, task) == [w |-> c.w, task |-> Returned(Logged(task, c.events))]

\* download_bulk_files when the request for output entry idx has ended:
\* written is the disk afterwards, files_downloaded the descriptors.
AfterDownload(written, task, files_downloaded, next, order) ==
    IF next # 0
    THEN [w |-> written,
          task |-> [task EXCEPT !.idx = next, !.files_downloaded = files_downloaded]]
    ELSE PollReturned(CompleteDownloads(written, task.job_id, files_downloaded, order, {}),
                      task)

DownloadRaises(w, task, result, order) ==
    [w |-> Failed(w, task.job_id, DeniedText), task |-> Returned(task)]

Downloaded(w, task, result, order) ==
    IF result.kind = "response" /\ result.status_code = 200
    THEN AfterDownload(
            [w EXCEPT !.disk[task.job_id].ndjson[task.output_files[task.idx].type] =
                          File(result.content)],
            Logged(task, <<Event("download", task.output_files[task.idx].type)>>),
            Append(task.files_downloaded,
                   [resource_type |-> task.output_files[task.idx].type,
                    lines |-> Len(result.content)]),
            NextUrl(task.output_files, task.idx), order)
    ELSE AfterDownload(w,
            Logged(task, <<Event("download", task.output_files[task.idx].type)>>),
            task.files_downloaded, NextUrl(task.output_files, task.idx), order)

\* The descriptors after the request for the entry at task.idx has ended.
Descriptors200(task, result) ==
    IF result.kind = "response" /\ result.status_code = 200
    THEN Append(task.files_downloaded,
                [resource_type |-> task.output_files[task.idx].type,
                 lines |-> Len(result.content)])
    ELSE task.files_downloaded

\* The types of the files that a download step leaves downloaded.
TypesAfter(task, result) ==
    TypesOf(task.files_downloaded)
    \cup (IF result.kind = "response" /\ result.status_code = 200
          THEN {task.output_files[task.idx].type} ELSE {})

\* A step of a task in download_bulk_files: one download.
DownloadStep(k, result) ==
    /\ k \in 1..Len(tasks)
    /\ tasks[k].pc = "download"
    /\ \E order \in Orders(TypesAfter(tasks[k], result)) :
          \E r \in {Downloaded(World, tasks[k], result, order)} :
             /\ Commit(r.w)
             /\ tasks' = [tasks EXCEPT ![k] = r.task]
    /\ reply' = NoReply
    /\ UNCHANGED othersJobs

\* The first step of a task of fetch_via_search.
StartSearch(k) ==
    /\ k \in 1..Len(tasks)
    /\ tasks[k].pc = "start"
    /\ \E r \in {BeginSearch(World, tasks[k], tasks[k].fhir_server_url,
                              tasks[k].resource_types, tasks[k].since)} :
          /\ Commit(r.w)
          /\ tasks' = [tasks EXCEPT ![k] = r.task]
    /\ reply' = NoReply
    /\ UNCHANGED othersJobs

\* A step of fetch_via_search: one search request.
SearchRequestEnds(k, result) ==
    /\ k \in 1..Len(tasks)
    /\ tasks[k].pc = "search"
    /\ \E r \in {SearchPage(World, tasks[k], result)} :
          /\ Commit(r.w)
          /\ tasks' = [tasks EXCEPT ![k] = r.task]
    /\ reply' = NoReply
    /\ UNCHANGED othersJobs

\* The same with a server that gives at most MaxNextLinks next links.
SearchStep(k, result) ==
    /\ k \in 1..Len(tasks)
    /\ result.kind = "response" /\ result.status_code = 200 /\ result.bundle.next =>
          tasks[k].page_count < MaxNextLinks
    /\ SearchRequestEnds(k, result)

Next ==
    \/ \E request \in KickOffRequests : \E result \in KickOffResults :
          kick_off_bulk_export(request, result)
    \/ \E status_url \in StatusUrls : \E bearer_token \in BearerTokens :
          resume_bulk_export(status_url, bearer_token)
    \/ \E k \in 1..MaxTasks : \E result \in PollResults : PollStep(k, result)
    \/ \E k \in 1..MaxTasks : \E result \in DownloadResults : DownloadStep(k, result)
    \/ \E k \in 1..MaxTasks : StartSearch(k)
    \/ \E k \in 1..MaxTasks : \E result \in SearchResults : SearchStep(k, result)

Spec == InitJobs /\ [][Next]_vars

\* C1: the status of a job never changes once it is completed or failed,
\* and never goes back to in-progress from downloading.
C1_StatusNeverRegresses ==
    [][\A j \in DOMAIN jobs :
          /\ jobs[j].status \in {"completed", "failed", "timeout"} =>
                jobs'[j].status = jobs[j].status
          /\ jobs[j].status = "downloading" => jobs'[j].status # "in-progress"]_vars

RECURSIVE SumLines(_)
SumLines(files) ==
    IF files = << >> THEN 0 ELSE Head(files).lines + SumLines(Tail(files))

\* C2: on every job, records_loaded <= records_transformed, and
\* records_transformed is at most the number of lines of the files that the
\* job downloaded.
C2_CountsBounded ==
    \A j \in DOMAIN jobs :
        jobs[j].records_transformed # NoInt =>
            /\ jobs[j].records_loaded <= jobs[j].records_transformed
            /\ jobs[j].records_transformed <= SumLines(jobs[j].files)

\* C8: a resume whose derived job id is in the registry returns that id,
\* leaves every registry entry as it is and schedules no task.
C8_ResumeOfKnownJobChangesNothing ==
    [][\A status_url \in StatusUrls : \A bearer_token \in BearerTokens :
          (/\ ResumeId(status_url) \in DOMAIN jobs
           /\ resume_bulk_export(status_url, bearer_token)) =>
              /\ jobs' = jobs
              /\ tasks' = tasks
              /\ reply'.job_id = ResumeId(status_url)
              /\ reply'.status_code = 200]_vars

\* A resume has answered for a job whose polling had already ended.
C8_Witness ==
    /\ reply.op = "resume"
    /\ reply.job_id \in DOMAIN jobs
    /\ jobs[reply.job_id].status \in {"completed", "failed"}
    /\ \E k \in 1..Len(tasks) : tasks[k].job_id = reply.job_id /\ tasks[k].pc = "done"

\* A poll step of task k that received a 200 manifest with a real error.
PolledRealError(k, result) ==
    /\ result.kind = "response"
    /\ result.status_code = 200
    /\ has_error(result.manifest)
    /\ PollStep(k, result)

\* C9 as stated: for every polling job, started by kick-off or by resume, a
\* real error of the manifest whose text contains "too many files" switches
\* the job to fhir_search and runs the fallback; every other real error
\* fails the job with the text stored.
C9_TooManyFilesAlwaysFallsBack ==
    [][\A k \in 1..MaxTasks : \A result \in PollResults :
          PolledRealError(k, result) =>
              LET id == tasks[k].job_id
                  text == error_msg(result.manifest)
              IN  IF Contains(lower(text), TOO_MANY_FILES)
                  THEN /\ jobs'[id].method = "fhir_search"
                       /\ tasks'[k].pc = "search"
                  ELSE /\ jobs'[id].status = "failed"
                       /\ jobs'[id].error = text
                       /\ tasks'[k].pc = "done"]_vars

\* C9: the fallback is run when the error text contains "too many files"
\* and the registry entry holds a fhir_server_url and at least one resource
\* type; otherwise (a resumed job, a job without resource types, any other
\* real error) the job fails with the text stored and no fallback is run.
C9_FallbackWhenEntryCanSearch ==
    [][\A k \in 1..MaxTasks : \A result \in PollResults :
          PolledRealError(k, result) =>
              LET id == tasks[k].job_id
                  text == error_msg(result.manifest)
              IN  IF /\ Contains(lower(text), TOO_MANY_FILES)
                     /\ jobs[id].fhir_server_url # Null
                     /\ jobs[id].resource_types # << >>
                  THEN /\ jobs'[id].method = "fhir_search"
                       /\ jobs'[id].status = "in-progress"
                       /\ tasks'[k].pc = "search"
                       /\ tasks'[k].resource_types = jobs[id].resource_types
                  ELSE /\ jobs'[id].status = "failed"
                       /\ jobs'[id].error = text
                       /\ jobs'[id].method = jobs[id].method
                       /\ tasks'[k].pc = "done"]_vars

HasEvent(task, e) == \E n \in 1..Len(task.trace) : task.trace[n].e = e

\* One job has fallen back to the search, and a resumed job has failed on a
\* "too many files" error.
C9_Witness ==
    /\ \E k \in 1..Len(tasks) :
          /\ HasEvent(tasks[k], "fallback")
          /\ jobs[tasks[k].job_id].method = "fhir_search"
    /\ \E j \in DOMAIN jobs :
          /\ jobs[j].method = "bulk_export_resumed"
          /\ jobs[j].status = "failed"
          /\ Contains(lower(jobs[j].error), TOO_MANY_FILES)

\* C10: in the events of one job (those of the task that drives it), the
\* kick-off response comes before the first poll, the poll that returned
\* the manifest before the first download, every download before the first
\* transform, and the transform of a type before the load of that type.
C10_EventsInOrder ==
    \A k \in 1..Len(tasks) :
        LET trace == tasks[k].trace
        IN  \A n \in 1..Len(trace) :
              /\ trace[n].e \in {"kickoff", "resume"} => n = 1
              /\ trace[n].e = "manifest" => \E i \in 1..(n - 1) : trace[i].e = "poll"
              /\ trace[n].e = "download" =>
                    /\ \E i \in 1..(n - 1) : trace[i].e = "manifest"
                    /\ \A i \in 1..(n - 1) : trace[i].e \notin {"transform", "load"}
              /\ trace[n].e = "load" =>
                    \E i \in 1..(n - 1) : trace[i] = Event("transform", trace[n].T)

\* A job that was kicked off, polled, downloaded, transformed and loaded.
C10_Witness ==
    \E k \in 1..Len(tasks) :
        /\ tasks[k].pc = "done"
        /\ \A e \in {"kickoff", "poll", "manifest", "download", "transform", "load"} :
              HasEvent(tasks[k], e)

\* C11: every kick-off whose $export request ends with a status other than
\* 202 creates a job search_<unix-ts> with method fhir_search and status
\* in-progress, and dispatches the search fallback for it.
C11_Non202AlwaysFallsBack ==
    [][\A request \in KickOffRequests : \A result \in KickOffResults :
          (/\ request.fhir_server_url # ""
           /\ request.auth # "smart_failed"
           /\ result.answered \notin {NoInt, 202}
           /\ kick_off_bulk_export(request, result)) =>
              /\ ("search_" \o ToString(now)) \in DOMAIN jobs'
              /\ jobs'["search_" \o ToString(now)].method = "fhir_search"
              /\ jobs'["search_" \o ToString(now)].status = "in-progress"
              /\ Len(tasks') = Len(tasks) + 1
              /\ Last(tasks').fn = "fetch_via_search"
              /\ Last(tasks').job_id = "search_" \o ToString(now)]_vars

\* C15: a kick-off that fails synchronously (empty server URL, SMART token
\* failure, connection error on the $export request) returns the error, adds
\* no job and schedules no task; an authentication failure is answered 401
\* and no request has been sent to the FHIR server.
C15_SyncFailureAddsNothing ==
    [][\A request \in KickOffRequests : \A result \in KickOffResults :
          (/\ reply'.op = "kick-off"
           /\ \/ request.fhir_server_url = ""
              \/ request.auth = "smart_failed"
              \/ result.error = "ConnectError"
           /\ kick_off_bulk_export(request, result)) =>
              /\ jobs' = jobs
              /\ tasks' = tasks
              /\ reply'.status_code \in {400, 401, 500}
              /\ reply'.job_id = Null
              /\ (request.fhir_server_url # "" /\ request.auth = "smart_failed") =>
                    (reply'.status_code = 401 /\ ~reply'.export_sent)]_vars

\* A kick-off was answered 401 without a request to the server, while the
\* registry holds a job with its task.
C15_Witness ==
    /\ reply.op = "kick-off"
    /\ reply.status_code = 401
    /\ ~reply.export_sent
    /\ jobs # << >>
    /\ tasks # << >>

\* C18: when a kick-off carries a since value, the $export request carries
\* _since with that value, and every search fallback run for that job,
\* entered at kick-off or after a too-many-files error during polling, sends
\* _lastUpdated=ge<since> on the first page request of each type.
C18_SinceReachesEverySearch ==
    [][/\ \A request \in KickOffRequests : \A result \in KickOffResults :
             (/\ reply'.export_sent
              /\ HasSince(request.since)
              /\ kick_off_bulk_export(request, result)) => ExportParams(request)._since = request.since
       /\ \A k \in 1..Len(tasks') :
             (tasks'[k].trace[1].e = "kickoff" /\ HasSince(tasks'[k].trace[1].T)) =>
                \A n \in 1..Len(tasks'[k].trace) :
                   tasks'[k].trace[n].e = "first_page" =>
                      tasks'[k].trace[n].T = "ge" \o tasks'[k].trace[1].T]_vars

\* The manifests whose error field is absent, "" or [], without an
\* OperationOutcome.
EmptyErrorManifests ==
    {m \in Manifests : /\ m.error \in {NoError, ErrorString(<< >>), ErrorList(<< >>)}
                       /\ ~m.OperationOutcome.present}

\* C16: a 200 manifest whose error field is absent, "" or [] and that has no
\* OperationOutcome is a success: the job moves to downloading (and on to
\* completed in the same step when the manifest lists nothing to download),
\* it is not failed and no error is stored on it.
C16_EmptyErrorIsSuccess ==
    [][\A k \in 1..Len(tasks) :
          tasks[k].pc = "poll" =>
             \A result \in PollResults :
                (/\ result.kind = "response"
                 /\ result.status_code = 200
                 /\ result.manifest \in EmptyErrorManifests
                 /\ PollStep(k, result)) =>
                    /\ jobs'[tasks[k].job_id].status \in {"downloading", "completed"}
                    /\ NextUrl(result.manifest.output, 0) # 0 =>
                          jobs'[tasks[k].job_id].status = "downloading"
                    /\ jobs'[tasks[k].job_id].error = jobs[tasks[k].job_id].error
                    /\ HasEvent(tasks'[k], "manifest")]_vars

\* A job is downloading the files of a manifest, and was never failed.
C16_Witness ==
    \E k \in 1..Len(tasks) :
        /\ tasks[k].pc = "download"
        /\ jobs[tasks[k].job_id].status = "downloading"
        /\ jobs[tasks[k].job_id].error = << >>

(***************************************************************************)
(* Termination: the event loop runs every task that is ready, and every    *)
(* HTTP call of a task returns or fails                                    *)
(***************************************************************************)

\* The next step of task k, whatever its request ends with.
TaskStep(k) ==
    \/ \E result \in PollResults : PollStep(k, result)
    \/ \E result \in DownloadResults : DownloadStep(k, result)
    \/ StartSearch(k)
    \/ \E result \in SearchResults : SearchStep(k, result)

MaxAlone == 1

\* A kick-off while fewer than MaxAlone jobs have been started.
KickOffAlone(request, result) ==
    /\ Len(tasks) < MaxAlone
    /\ kick_off_bulk_export(request, result)

NextAlone ==
    \/ \E request \in KickOffRequests : \E result \in KickOffResults :
          KickOffAlone(request, result)
    \/ \E k \in 1..MaxAlone : TaskStep(k)

FairSpec == InitJobs /\ [][NextAlone]_vars /\ \A k \in 1..MaxAlone : WF_vars(TaskStep(k))

\* C13: when the server ends up answering something other than 202 and every
\* HTTP call returns or fails, every task ends and leaves its job completed
\* or failed; a poll answered 202 leaves the job in-progress and the task
\* polling, however many polls came before it.
C13_EveryJobEnds ==
    /\ \A k \in 1..MaxAlone :
          (Len(tasks) >= k) ~>
             (/\ Len(tasks) >= k
              /\ tasks[k].pc = "done"
              /\ jobs[tasks[k].job_id].status \in {"completed", "failed"})
    /\ [][\A k \in 1..Len(tasks) :
             tasks[k].pc = "poll" =>
                \A result \in PollResults :
                   (result.kind = "response" /\ result.status_code = 202) =>
                      /\ Polled(World, tasks[k], result).task.pc = "poll"
                      /\ jobs[tasks[k].job_id].status = "in-progress" =>
                            Polled(World, tasks[k], result).w.jobs[tasks[k].job_id].status
                               = "in-progress"]_vars

\* A task that was answered 202 has ended, its job completed.
C13_Witness ==
    \E k \in 1..Len(tasks) :
        /\ tasks[k].pc = "done"
        /\ tasks[k].trace[1].e = "kickoff"
        /\ HasEvent(tasks[k], "poll")
        /\ jobs[tasks[k].job_id].status = "completed"

(***************************************************************************)
(* The search fallback alone, with a server that may give a next link on   *)
(* every page                                                              *)
(***************************************************************************)

\* The results of an $export request that was answered, not with 202.
Non202Results == {r \in KickOffResults : r.kind = "response" /\ r.status_code # 202}

NextSearch ==
    \/ \E request \in KickOffRequests : \E result \in Non202Results :
          KickOffAlone(request, result)
    \/ \E k \in 1..MaxAlone : StartSearch(k)
    \/ \E k \in 1..MaxAlone : \E result \in SearchResults :
          SearchRequestEnds(k, result)

SpecSearch == InitJobs /\ [][NextSearch]_vars

\* C17: for each resource type the search fallback sends at most 10 page
\* requests, even when every page has a next link, and sends no further
\* request for the type after a page without a next link.
C17_AtMostTenPages ==
    [][\A k \in 1..Len(tasks) :
          /\ tasks'[k].requests <= max_pages
          /\ \A result \in SearchResults :
                (/\ tasks[k].pc = "search"
                 /\ ~(result.kind = "response" /\ result.status_code = 200
                      /\ result.bundle.next)
                 /\ SearchRequestEnds(k, result)) =>
                    \/ tasks'[k].pc = "done"
                    \/ tasks'[k].i = tasks[k].i + 1 /\ tasks'[k].requests = 1]_vars

\* The tenth page request of a type is in flight.
C17_Witness == \E k \in 1..Len(tasks) : tasks[k].requests = max_pages

(***************************************************************************)
(* One job whose status requests go through the retry wrapper              *)
(***************************************************************************)

\* What the server answers to a status request, the same at every attempt:
\* a status with its body (a manifest, a progress header, a text), or the
\* connection fails.
StatusAnswer(kind, status_code, error, manifest, progress, text) ==
    [kind |-> kind, status_code |-> status_code, error |-> error,
     manifest |-> manifest, progress |-> progress, text |-> text]

\* A manifest of three output entries, the second without url.
ThreeOutputs ==
    Manifest(NoError, NoOutcome,
             <<Output("Patient", TRUE), Output("Condition", FALSE),
               Output("Condition", TRUE)>>)

StatusAnswers ==
    {StatusAnswer("exception", NoInt, "ConnectError",
                  Manifest(NoError, NoOutcome, << >>), Null, << >>)}
    \cup {StatusAnswer("response", 200, Null, m, Null, << >>) :
            m \in Manifests \cup {ThreeOutputs}}
    \cup {StatusAnswer("response", 202, Null, Manifest(NoError, NoOutcome, << >>),
                       "50%", << >>)}
    \cup {StatusAnswer("response", s, Null, Manifest(NoError, NoOutcome, << >>),
                       Null, x) : s \in {400, 503}, x \in {TooManyFilesText, DeniedText}}

\* response = await retry_http_call(...) of poll_export_status: the response
\* that the wrapper returns, or the error that it raises.
PollResult(answer, r) ==
    IF r.kind = "response"
    THEN [kind |-> "response", status_code |-> answer.status_code, error |-> Null,
          manifest |-> answer.manifest, progress |-> answer.progress,
          text |-> answer.text]
    ELSE [kind |-> "raised", status_code |-> NoInt, error |-> r.error,
          manifest |-> Manifest(NoError, NoOutcome, << >>), progress |-> Null,
          text |-> << >>]

\* A step of a task of poll_export_status: one status request with its
\* retries.
StatusRequestEnds(k, answer) ==
    /\ k \in 1..Len(tasks)
    /\ tasks[k].status_url = << >> => answer.kind = "exception"
    /\ PollStep(k, PollResult(answer, retry_http_call(RETRY_CONFIG_NETWORK, answer)))

\* A resume while fewer than MaxAlone jobs have been started.
ResumeAlone(status_url, bearer_token) ==
    /\ Len(tasks) < MaxAlone
    /\ resume_bulk_export(status_url, bearer_token)

NextPoll ==
    \/ \E request \in KickOffRequests : \E result \in KickOffResults :
          KickOffAlone(request, result)
    \/ \E status_url \in StatusUrls : \E bearer_token \in BearerTokens :
          ResumeAlone(status_url, bearer_token)
    \/ \E k \in 1..MaxAlone : \E answer \in StatusAnswers : StatusRequestEnds(k, answer)
    \/ \E k \in 1..MaxAlone : \E result \in DownloadResults : DownloadStep(k, result)
    \/ \E k \in 1..MaxAlone : StartSearch(k)
    \/ \E k \in 1..MaxAlone : \E result \in SearchResults : SearchStep(k, result)

SpecPoll == InitJobs /\ [][NextPoll]_vars

\* C22: when a status request is answered with a status that is neither 200
\* nor 202, the body decides: with "too many files" in it (in any letter
\* case) the job goes on by search, else the job is failed and its error is
\* the body.
C22_BodyOfNon2xxDecides ==
    [][\A k \in 1..Len(tasks) :
          tasks[k].pc = "poll" =>
             \A answer \in StatusAnswers :
                (/\ answer.kind = "response"
                 /\ answer.status_code \notin {200, 202}
                 /\ StatusRequestEnds(k, answer)) =>
                    IF Contains(lower(answer.text), TOO_MANY_FILES)
                    THEN /\ jobs'[tasks[k].job_id].method = "fhir_search"
                         /\ HasEvent(tasks'[k], "fallback")
                    ELSE /\ jobs'[tasks[k].job_id].status = "failed"
                         /\ jobs'[tasks[k].job_id].error = answer.text]_vars

\* C24: after a manifest without a real error nothing about the downloads
\* fails the job. A manifest with no output, or with no entry that has a
\* url, ends the task with the job completed and no descriptor added. An
\* entry without url is skipped; a download that ends with a status other
\* than 200 or with an error (the retries used up, or another exception)
\* adds no descriptor, one that ends with 200 adds one; when the last entry
\* is done the job is completed, no error is stored, and its files are the
\* descriptors of the downloads answered 200.
C24_DownloadsNeverFailTheJob ==
    [][\A k \in 1..Len(tasks) :
          /\ tasks[k].pc = "poll" =>
                \A answer \in StatusAnswers :
                   (/\ answer.kind = "response"
                    /\ answer.status_code = 200
                    /\ ~has_error(answer.manifest)
                    /\ StatusRequestEnds(k, answer)) =>
                       IF \A n \in 1..Len(answer.manifest.output) :
                             ~answer.manifest.output[n].url
                       THEN /\ jobs'[tasks[k].job_id].status = "completed"
                            /\ jobs'[tasks[k].job_id].error = jobs[tasks[k].job_id].error
                            /\ jobs'[tasks[k].job_id].files \in
                                  {<< >>, jobs[tasks[k].job_id].files}
                            /\ answer.manifest.output # << >> =>
                                  jobs'[tasks[k].job_id].files = << >>
                            /\ tasks'[k].pc = "done"
                       ELSE /\ jobs'[tasks[k].job_id].status = "downloading"
                            /\ tasks'[k].pc = "download"
                            /\ tasks'[k].files_downloaded = << >>
                            /\ tasks'[k].output_files[tasks'[k].idx].url
          /\ tasks[k].pc = "download" =>
                \A result \in DownloadResults :
                   DownloadStep(k, result) =>
                      /\ jobs'[tasks[k].job_id].error = jobs[tasks[k].job_id].error
                      /\ IF \E n \in (tasks[k].idx + 1)..Len(tasks[k].output_files) :
                               tasks[k].output_files[n].url
                         THEN /\ jobs'[tasks[k].job_id].status = jobs[tasks[k].job_id].status
                              /\ tasks'[k].pc = "download"
                              /\ tasks'[k].idx > tasks[k].idx
                              /\ tasks'[k].output_files[tasks'[k].idx].url
                              /\ tasks'[k].files_downloaded = Descriptors200(tasks[k], result)
                         ELSE /\ jobs'[tasks[k].job_id].status = "completed"
                              /\ jobs'[tasks[k].job_id].files =
                                    Descriptors200(tasks[k], result)
                              /\ tasks'[k].pc = "done"]_vars

\* A job of three output entries has ended completed with one descriptor:
\* one entry had no url, one download was answered 200, one was not.
C24_Witness ==
    \E k \in 1..Len(tasks) :
        /\ tasks[k].pc = "done"
        /\ jobs[tasks[k].job_id].status = "completed"
        /\ jobs[tasks[k].job_id].file_count = 3
        /\ Len(jobs[tasks[k].job_id].files) = 1

\* C26: a job that is seen completed has its transform and load behind it:
\* while it stays completed its records_transformed and records_loaded do
\* not change, and no task is still at work for it.
C26_CompletedCountsAreFinal ==
    /\ [][\A j \in DOMAIN jobs :
             (/\ jobs[j].status = "completed"
              /\ j \in DOMAIN jobs'
              /\ jobs'[j].status = "completed") =>
                 /\ jobs'[j].records_transformed = jobs[j].records_transformed
                 /\ jobs'[j].records_loaded = jobs[j].records_loaded]_vars
    /\ [](\A k \in 1..Len(tasks) :
             (/\ tasks[k].pc # "done"
              /\ tasks[k].job_id \in DOMAIN jobs) =>
                 jobs[tasks[k].job_id].status # "completed")

\* C27: an accepted kick-off adds an entry under a job id that no entry had
\* before, and leaves every entry that was there as it was.
C27_KickOffAddsNewEntry ==
    [][\A request \in KickOffRequests : \A result \in KickOffResults :
          (/\ reply'.op = "kick-off"
           /\ reply'.status_code = 200
           /\ kick_off_bulk_export(request, result)) =>
              /\ reply'.job_id \notin DOMAIN jobs
              /\ reply'.job_id \in DOMAIN jobs'
              /\ \A j \in DOMAIN jobs : jobs'[j] = jobs[j]]_vars

\* C28: the task of a job is given, when it is added, the Authorization
\* header that the kick-off computed or that the resume request supplied, and
\* no step changes it as long as the task runs: every status request,
\* download and search page of the job is sent with that header, whatever
\* time has passed.
C28_HeaderNeverChanges ==
    [][
        /\ \A request \in KickOffRequests : \A result \in KickOffResults :
             (/\ reply'.op = "kick-off"
              /\ reply'.status_code = 200
              /\ kick_off_bulk_export(request, result)) =>
                 tasks'[Len(tasks')].headers = Authorization(request.auth)
        /\ \A status_url \in StatusUrls : \A bearer_token \in BearerTokens :
             (/\ reply'.op = "resume"
              /\ Len(tasks') > Len(tasks)
              /\ resume_bulk_export(status_url, bearer_token)) =>
                 tasks'[Len(tasks')].headers =
                    IF bearer_token = Null THEN Null ELSE "Bearer " \o bearer_token
        /\ \A k \in 1..Len(tasks) :
             tasks'[k].pc # "done" =>
                /\ tasks'[k].headers = tasks[k].headers
                /\ tasks'[k].job_id = tasks[k].job_id
    ]_vars

\* A task that was given the header of a SMART token has polled, was sent
\* to the search fallback and is fetching pages, with that header.
C28_Witness ==
    \E k \in 1..Len(tasks) :
        /\ tasks[k].pc = "search"
        /\ HasEvent(tasks[k], "poll")
        /\ HasEvent(tasks[k], "fallback")
        /\ tasks[k].headers = "Bearer s"

(***************************************************************************)
(* One job and the requests that read the registry                         *)
(***************************************************************************)

\* The job ids asked for: those that a kick-off or a resume gives, and one
\* that none gives.
StatusJobIds == {"s1", "resume_s1", "search_0", "J0"}

NextStatus ==
    \/ NextPoll
    \/ \E job_id \in StatusJobIds : get_export_status(job_id)
    \/ list_jobs

SpecStatus == InitJobs /\ [][NextStatus]_vars

\* C29: what status and list return holds no Authorization header of a job
\* (so two runs that differ only in a job's token get the same replies).
C29_RepliesHoldNoToken ==
    reply.op \in {"status", "jobs"} =>
        \A job_info \in reply.body :
            \/ "headers" \notin DOMAIN job_info
            \/ job_info.headers \in {NoHeaders, Null}
====
